---------------------------- MODULE Spec2Model ----------------------------
(***************************************************************************)
(* Watermark restoration: the WatermarkEngine class used by the React App  *)
(* (App.jsx) and the WatermarkProcessor class used by the plain-DOM UI     *)
(* controller.  The two pages are separate programs; `page` says which one *)
(* is running.                                                             *)
(*                                                                         *)
(* Numbers.  JavaScript numbers are modelled as exact rationals <<n, d>>   *)
(* with d > 0.  An alpha map entry is max(R,G,B)/255, an intensity is a    *)
(* number of tenths (the slider's step), so every comparison the code      *)
(* makes is between rationals that differ by far more than the rounding    *)
(* error of a Float32Array entry.                                          *)
(*                                                                         *)
(* Pixel buffers.  A buffer of width*height RGBA pixels is the record      *)
(* [width, height, fill, px]: px maps a pixel number (y*width + x) to its  *)
(* <<R, G, B, A>> value and every pixel not in DOMAIN px has value fill.   *)
(* This is an encoding of the array's contents, not a smaller array: the   *)
(* loops below run over every entry of the real 48x48 and 96x96 maps.      *)
(***************************************************************************)
EXTENDS Integers, Sequences, FiniteSets, TLC

\* null as the value of a string-valued parameter, and null as an object
NULL == "null"

NullObject == [null |-> TRUE]

(***************************************************************************)
(* Rationals                                                               *)
(***************************************************************************)
RLess(a, b) == a[1] * b[2] < b[1] * a[2]

RMin(a, b) == IF RLess(b, a) THEN b ELSE a

RMax(a, b) == IF RLess(a, b) THEN b ELSE a

RMul(a, b) == <<a[1] * b[1], a[2] * b[2]>>

RSub(a, b) == <<a[1] * b[2] - b[1] * a[2], a[2] * b[2]>>

\* a / b, the denominator of the quotient kept positive; b = 0 gives the
\* denominator 0, which the comparisons above order as JavaScript orders
\* +Infinity and -Infinity
RDiv(a, b) ==
    IF b[1] < 0
    THEN <<-(a[1] * b[2]), -(a[2] * b[1])>>
    ELSE <<a[1] * b[2], a[2] * b[1]>>

RInt(k) == <<k, 1>>

\* Math.round: the nearest integer, a tie going up
MathRound(q) == (2 * q[1] + q[2]) \div (2 * q[2])

\* storing a number into a Uint8ClampedArray: clamped to [0,255], then the
\* nearest integer, a tie going to the even one
ToUint8Clamped(q) ==
    LET c == RMax(RInt(0), RMin(RInt(255), q))
        fl == c[1] \div c[2]
        r2 == 2 * (c[1] % c[2])
    IN  IF r2 < c[2] THEN fl
        ELSE IF r2 > c[2] THEN fl + 1
        ELSE IF fl % 2 = 0 THEN fl ELSE fl + 1

Max3(a, b, c) ==
    LET ab == IF a > b THEN a ELSE b
    IN  IF ab > c THEN ab ELSE c

(***************************************************************************)
(* Constants of the source                                                 *)
(***************************************************************************)
MAX_ALPHA == <<99, 100>>

ALPHA_THRESHOLD == <<2, 1000>>

WATERMARK_SIZE == [SMALL |-> "small", LARGE |-> "large"]

\* this.logoValue of the engine, and the default logoValue of the processor
logoValue == 255

(***************************************************************************)
(* Pixel buffers                                                           *)
(***************************************************************************)
NoPixels == [p \in {} |-> <<0, 0, 0, 0>>]

PixelAt(buf, p) == IF p \in DOMAIN buf.px THEN buf.px[p] ELSE buf.fill

\* the pixel number of position (x, y), row-major
PixelNo(buf, x, y) == y * buf.width + x


(***************************************************************************)
(* The reference bitmaps bg_48.png and bg_96.png as the browser decodes    *)
(* them: RGBA buffers, black but for the listed pixels.  max(R,G,B) of the *)
(* listed pixels: 255 (alpha 1, above MAX_ALPHA), 253 (just above          *)
(* MAX_ALPHA), 128, 64, 1 (the smallest entry above the threshold) and 0.  *)
(***************************************************************************)
BG_48 ==
    [width |-> 48, height |-> 48, fill |-> <<0, 0, 0, 255>>,
     px |-> (0 :> <<255, 255, 255, 255>>) @@ (47 :> <<1, 0, 0, 255>>)
         @@ (1176 :> <<0, 0, 0, 255>>) @@ (1967 :> <<250, 253, 3, 255>>)
         @@ (2256 :> <<128, 64, 0, 255>>) @@ (2303 :> <<10, 64, 20, 255>>)]

BG_96 ==
    [width |-> 96, height |-> 96, fill |-> <<0, 0, 0, 255>>,
     px |-> (0 :> <<255, 255, 255, 255>>) @@ (95 :> <<0, 1, 0, 255>>)
         @@ (4656 :> <<0, 0, 0, 255>>) @@ (9120 :> <<0, 0, 128, 255>>)
         @@ (9215 :> <<64, 64, 64, 255>>)]

(***************************************************************************)
(* Alpha maps.  data is the Float32Array: entry i is Entry(data, i)/255.   *)
(***************************************************************************)
Entry(data, i) == IF i \in DOMAIN data.at THEN data.at[i] ELSE data.fill

\* WatermarkEngine.calculateAlphaMap
calculateAlphaMap(img) ==
    [width |-> img.width,
     height |-> img.height,
     data |-> [length |-> img.width * img.height,
               fill |-> Max3(img.fill[1], img.fill[2], img.fill[3]),
               at |-> [i \in DOMAIN img.px |->
                          Max3(img.px[i][1], img.px[i][2], img.px[i][3])]]]

\* WatermarkProcessor.loadAlphaMap, after the image has loaded
loadAlphaMap(img) ==
    [data |-> [length |-> img.width * img.height,
               fill |-> Max3(img.fill[1], img.fill[2], img.fill[3]),
               at |-> [i \in DOMAIN img.px |->
                          Max3(img.px[i][1], img.px[i][2], img.px[i][3])]],
     width |-> img.width,
     height |-> img.height]

(***************************************************************************)
(* WatermarkEngine: the variant selector                                   *)
(***************************************************************************)
getWatermarkConfigLarge ==
    [margin_right |-> 64, margin_bottom |-> 64, logo_size |-> 96, size |-> 96]

getWatermarkConfigSmall ==
    [margin_right |-> 32, margin_bottom |-> 32, logo_size |-> 48, size |-> 48]

\* faulty variant: one dimension above 1024 is enough
EngineConfigEitherAbove(width, height) ==
    IF width > 1024 \/ height > 1024
    THEN getWatermarkConfigLarge
    ELSE getWatermarkConfigSmall

\* WatermarkEngine.getWatermarkConfig
EngineGetWatermarkConfig(width, height) ==
    IF width > 1024 /\ height > 1024
    THEN getWatermarkConfigLarge
    ELSE getWatermarkConfigSmall

\* faulty variant: only LARGE is honoured as an explicit choice
EngineSelectLargeOnly(width, height, forceSize) ==
    IF forceSize # NULL /\ forceSize = WATERMARK_SIZE.LARGE
    THEN getWatermarkConfigLarge
    ELSE EngineGetWatermarkConfig(width, height)

\* process, lines 79-87: forceSize is null or any other value
EngineSelect(width, height, forceSize) ==
    IF forceSize # NULL
    THEN IF forceSize = WATERMARK_SIZE.LARGE
         THEN getWatermarkConfigLarge
         ELSE getWatermarkConfigSmall
    ELSE EngineGetWatermarkConfig(width, height)

\* faulty variant: the two fields are taken for one another
EngineSlotSwapped(config) == IF config.size = 96 THEN "small" ELSE "large"

\* process, line 89: the field of this.alphaMaps that is used
EngineSlot(config) == IF config.size = 96 THEN "large" ELSE "small"

(***************************************************************************)
(* WatermarkProcessor: the variant selector                                *)
(***************************************************************************)
\* faulty variant: the corner is measured from the far edge of the logo
ProcessorConfigFromFarEdge(width, height, forceMode) ==
    LET size == IF forceMode = "48" THEN 48
                ELSE IF forceMode = "96" THEN 96
                ELSE IF width > 1024 /\ height > 1024 THEN 96 ELSE 48
        margin == IF size = 96 THEN 64 ELSE 32
    IN  [size |-> size, margin |-> margin,
         x |-> width - margin, y |-> height - margin]

\* WatermarkProcessor.getWatermarkConfig
ProcessorGetWatermarkConfig(width, height, forceMode) ==
    LET size == IF forceMode = "48" THEN 48
                ELSE IF forceMode = "96" THEN 96
                ELSE IF width > 1024 /\ height > 1024 THEN 96 ELSE 48
        margin == IF size = 96 THEN 64 ELSE 32
    IN  [size |-> size, margin |-> margin,
         x |-> width - margin - size, y |-> height - margin - size]

(***************************************************************************)
(* WatermarkEngine.process                                                 *)
(***************************************************************************)
\* faulty variant: Math.max where the code has Math.min
EngineAlphaMax(data, i, intensity) ==
    LET rawAlpha == RMul(<<Entry(data, i), 255>>, intensity)
    IN  RMax(rawAlpha, MAX_ALPHA)

\* faulty variant: the clamp of line 106 is missing
EngineAlphaUnclamped(data, i, intensity) ==
    RMul(<<Entry(data, i), 255>>, intensity)

\* lines 105-106: the entry scaled by the intensity, clamped to MAX_ALPHA
EngineAlpha(data, i, intensity) ==
    LET rawAlpha == RMul(<<Entry(data, i), 255>>, intensity)
    IN  RMin(rawAlpha, MAX_ALPHA)

\* line 108
EngineSkips(alpha) == RLess(alpha, ALPHA_THRESHOLD)

\* faulty variant: the logo value on the 0..1 scale of alpha
EngineChannelUnitLogo(v, alpha) ==
    LET oneMinusAlpha == RSub(RInt(1), alpha)
        r == RDiv(RSub(RInt(v), alpha), oneMinusAlpha)
    IN  ToUint8Clamped(RMax(RInt(0), RMin(RInt(255), r)))

\* faulty variant: the value is truncated, as a store into an Int32Array or
\* a bitwise | 0 does
EngineChannelTruncated(v, alpha) ==
    LET alphaM == RMul(alpha, RInt(logoValue))
        oneMinusAlpha == RSub(RInt(1), alpha)
        r == RDiv(RSub(RInt(v), alphaM), oneMinusAlpha)
        c == RMax(RInt(0), RMin(RInt(255), r))
    IN  c[1] \div c[2]

\* lines 110-125, one channel: the value stored into the Uint8ClampedArray
EngineChannel(v, alpha) ==
    LET alphaM == RMul(alpha, RInt(logoValue))
        oneMinusAlpha == RSub(RInt(1), alpha)
        r == RDiv(RSub(RInt(v), alphaM), oneMinusAlpha)
    IN  ToUint8Clamped(RMax(RInt(0), RMin(RInt(255), r)))

\* faulty variant: the alpha channel is restored like the colour channels
EnginePixelAllChannels(old, alpha) ==
    <<EngineChannel(old[1], alpha), EngineChannel(old[2], alpha),
      EngineChannel(old[3], alpha), EngineChannel(old[4], alpha)>>

\* lines 113-127, one pixel of the ROI buffer
EnginePixel(old, alpha) ==
    <<EngineChannel(old[1], alpha), EngineChannel(old[2], alpha),
      EngineChannel(old[3], alpha), old[4]>>

\* line 95
EngineTooSmall(roiX, roiY) == roiX < 0 \/ roiY < 0

\* line 74
EngineNotReady(rdy) == ~rdy

\* The call process(canvas, forceSize, intensity) on an engine whose fields
\* are maps and rdy.  outcome "threw" is the Error of line 74.  entered says
\* that the call reached the loop of line 103; alphaMap is the map of line
\* 89, hits are the alpha map indices the loop did not skip, used the
\* values of alpha with which lines 110-111 ran, access the
\* <<x, y, byte index>> of the canvas pixels it wrote.
EngineProcess(maps, rdy, canvas, forceSize, intensity) ==
    IF EngineNotReady(rdy)
    THEN [outcome |-> "threw", buffer |-> canvas, config |-> NullObject,
          slot |-> NULL, alphaMap |-> NullObject, entered |-> FALSE,
          hits |-> {}, used |-> {}, access |-> {}]
    ELSE
    LET width == canvas.width
        height == canvas.height
        config == EngineSelect(width, height, forceSize)
        slot == EngineSlot(config)
        alphaMap == maps[slot]
        roiX == width - config.margin_right - config.logo_size
        roiY == height - config.margin_bottom - config.logo_size
    IN  IF EngineTooSmall(roiX, roiY)
        THEN [outcome |-> "returned", buffer |-> canvas, config |-> config,
              slot |-> slot, alphaMap |-> alphaMap, entered |-> FALSE,
              hits |-> {}, used |-> {}, access |-> {}]
        ELSE
        LET n == config.logo_size
            \* getImageData(roiX, roiY, n, n): ROI pixel i is canvas pixel
            \* (roiX + i % n, roiY + i \div n), clipped to the canvas
            X(i) == roiX + (i % n)
            Y(i) == roiY + (i \div n)
            \* for (i = 0; i < alphaMap.data.length; i++): the entries not
            \* listed in data.at all hold data.fill, so the test of line 108
            \* gives one answer for all of them
            listed == DOMAIN alphaMap.data.at
            fillAlpha == RMin(RMul(<<alphaMap.data.fill, 255>>, intensity),
                              MAX_ALPHA)
            hits == {i \in listed :
                        /\ i < alphaMap.data.length
                        /\ ~EngineSkips(EngineAlpha(alphaMap.data, i, intensity))}
                    \cup (IF EngineSkips(fillAlpha) THEN {}
                          ELSE (0 .. alphaMap.data.length - 1) \ listed)
            \* a store past the end of the ROI buffer is ignored, and so
            \* is putImageData outside the canvas
            stored == {i \in hits : /\ i < n * n
                                    /\ X(i) >= 0 /\ X(i) < width
                                    /\ Y(i) >= 0 /\ Y(i) < height}
            written == {PixelNo(canvas, X(i), Y(i)) : i \in stored}
            idx(p) == ((p \div width) - roiY) * n + ((p % width) - roiX)
            px == [p \in DOMAIN canvas.px \cup written |->
                     IF p \in written
                     THEN EnginePixel(PixelAt(canvas, p),
                              EngineAlpha(alphaMap.data, idx(p), intensity))
                     ELSE canvas.px[p]]
        IN  [outcome |-> "returned",
             buffer |-> [canvas EXCEPT !.px = px],
             config |-> config,
             slot |-> slot,
             alphaMap |-> alphaMap,
             entered |-> TRUE,
             hits |-> hits,
             used |-> {EngineAlpha(alphaMap.data, i, intensity) : i \in hits},
             access |-> {<<X(i), Y(i), PixelNo(canvas, X(i), Y(i)) * 4>> :
                            i \in stored}]

(***************************************************************************)
(* WatermarkProcessor.process                                              *)
(***************************************************************************)
\* faulty variant: the test imgX < 0 is missing
ProcessorOutOfBoundsNoLeft(imgX, imgY, width, height) ==
    imgX >= width \/ imgY < 0 \/ imgY >= height

\* line 253
ProcessorOutOfBounds(imgX, imgY, width, height) ==
    imgX < 0 \/ imgX >= width \/ imgY < 0 \/ imgY >= height

\* line 256
ProcessorSkips(alpha) == RLess(alpha, ALPHA_THRESHOLD)

\* line 258
ProcessorSafeAlpha(alpha) == RMin(alpha, MAX_ALPHA)

\* lines 258-266, one channel
ProcessorChannel(watermarked, alpha, lv) ==
    LET safeAlpha == ProcessorSafeAlpha(alpha)
        oneMinusAlpha == RSub(RInt(1), safeAlpha)
        original == RDiv(RSub(RInt(watermarked), RMul(safeAlpha, RInt(lv))),
                         oneMinusAlpha)
        rounded == MathRound(original)
        capped == IF rounded > 255 THEN 255 ELSE rounded
    IN  IF capped < 0 THEN 0 ELSE capped

\* lines 262-267: for (c = 0; c < 3; c++)
ProcessorPixel(old, alpha, lv) ==
    <<ProcessorChannel(old[1], alpha, lv), ProcessorChannel(old[2], alpha, lv),
      ProcessorChannel(old[3], alpha, lv), old[4]>>

\* line 241
ProcessorNoMap(alphaMap) == alphaMap = NullObject

\* line 239: the field of the processor that is used
ProcessorSlot(config) == IF config.size = 96 THEN "alphaMap96" ELSE "alphaMap48"

\* The call process(imageData, forceMode, lv) on the processor proc.  The
\* call never throws.  hits are the numbers row * mapSize + col of the loop
\* iterations that reached line 258, used their values of safeAlpha.
ProcessorProcess(proc, imageData, forceMode, lv) ==
    LET width == imageData.width
        height == imageData.height
        config == ProcessorGetWatermarkConfig(width, height, forceMode)
        slot == ProcessorSlot(config)
        alphaMap == proc[slot]
    IN  IF ProcessorNoMap(alphaMap)
        THEN [outcome |-> "returned", buffer |-> imageData, config |-> config,
              slot |-> slot, alphaMap |-> alphaMap, entered |-> FALSE,
              hits |-> {}, used |-> {}, access |-> {}]
        ELSE
        LET mapSize == config.size
            imgX(k) == config.x + (k % mapSize)
            imgY(k) == config.y + (k \div mapSize)
            alpha(k) == <<Entry(alphaMap.data, k), 255>>
            \* for row, for col: the entries not listed in data.at all hold
            \* data.fill, so the test of line 256 gives one answer for them
            listed == DOMAIN alphaMap.data.at
            inside(k) == ~ProcessorOutOfBounds(imgX(k), imgY(k), width, height)
            cells == {k \in listed :
                        /\ k < mapSize * mapSize
                        /\ inside(k)
                        /\ ~ProcessorSkips(alpha(k))}
                     \cup (IF ProcessorSkips(<<alphaMap.data.fill, 255>>) THEN {}
                           ELSE {k \in (0 .. mapSize * mapSize - 1) \ listed :
                                    inside(k)})
            pixelIndex(k) == (imgY(k) * width + imgX(k)) * 4
            \* a store outside the Uint8ClampedArray is ignored
            stored == {k \in cells : /\ pixelIndex(k) >= 0
                                     /\ pixelIndex(k) + 3 < width * height * 4}
            written == {pixelIndex(k) \div 4 : k \in stored}
            cellOf(p) == CHOOSE k \in stored :
                            /\ pixelIndex(k) \div 4 = p
                            /\ \A j \in stored :
                                  pixelIndex(j) \div 4 = p => j <= k
            px == [p \in DOMAIN imageData.px \cup written |->
                     IF p \in written
                     THEN ProcessorPixel(PixelAt(imageData, p),
                                         alpha(cellOf(p)), lv)
                     ELSE imageData.px[p]]
        IN  [outcome |-> "returned",
             buffer |-> [imageData EXCEPT !.px = px],
             config |-> config,
             slot |-> slot,
             alphaMap |-> alphaMap,
             entered |-> TRUE,
             hits |-> cells,
             used |-> {ProcessorSafeAlpha(alpha(k)) : k \in cells},
             access |-> {<<imgX(k), imgY(k), pixelIndex(k)>> : k \in cells}]

(***************************************************************************)
(* Inputs                                                                  *)
(***************************************************************************)
\* the number of restore calls made on one pixel buffer
MaxCalls == 2

\* intensities, in tenths as the slider gives them: 0, 0.5, 1.0, 2.0
Intensities == {<<0, 10>>, <<5, 10>>, <<10, 10>>, <<20, 10>>}

\* the size modes of the React App's select, and the values a caller may
\* pass to WatermarkEngine.process as forceSize
SizeModes == {"auto", "small", "large"}

ForceSizes == {NULL, WATERMARK_SIZE.SMALL, WATERMARK_SIZE.LARGE}

\* the values of forceMode that WatermarkProcessor knows
ForceModes == {"auto", "48", "96"}

MkImage(w, h, fill, px) == [width |-> w, height |-> h, fill |-> fill, px |-> px]

\* Target images: two above the 1024 threshold, the boundary 1024x1024, two
\* with one dimension above it (800x1200, 1025x1024), and three smaller
\* than a logo plus its margin (120x120 for the large logo only, 100x60
\* and 40x40 for both).  The listed pixels of the 1025x1025 image lie under
\* a zero entry of each alpha map.
Images ==
    { MkImage(2000, 2000, <<200, 150, 100, 255>>,
              (3681840 :> <<200, 90, 255, 128>>) @@ (0 :> <<1, 2, 3, 4>>)),
      MkImage(1025, 1025, <<90, 200, 255, 255>>,
              (936738 :> <<50, 60, 70, 80>>) @@ (994194 :> <<5, 100, 250, 255>>)),
      MkImage(1024, 1024, <<255, 255, 255, 255>>, NoPixels),
      MkImage(800, 1200, <<130, 140, 150, 255>>, NoPixels),
      MkImage(1025, 1024, <<130, 140, 150, 200>>, NoPixels),
      MkImage(120, 120, <<250, 128, 64, 128>>, NoPixels),
      MkImage(100, 60, <<200, 150, 100, 255>>, NoPixels),
      MkImage(40, 40, <<200, 150, 100, 255>>,
              (240 :> <<7, 8, 9, 10>>) @@ (287 :> <<255, 254, 253, 0>>)) }

(***************************************************************************)
(* App.jsx: the debounce effect of lines 193-211.  Time is counted in      *)
(* milliseconds and passes in steps of 100.                                *)
(***************************************************************************)
\* setTimeout(..., 300), line 204
Delay == 300

\* clock.  sinceLogo and sinceTrigger: the time since the last change of
\* the logo settings and since the last run of the effect, counted up to
\* Delay + 100.  found: the last run of the effect found images; armed:
\* it did and no timer has fired since; foundByLogo: the last change of the
\* logo settings found images; cancelled: the last run of the effect found
\* a timer pending.  Since the last run of the effect: passes counts the
\* reprocess passes started and empties the calls of reprocessAllImages
\* that returned at line 177; afterLogo, afterTrigger and size are the two
\* times and the length of the image list when the last pass started (-1:
\* none).
NoChange ==
    [sinceLogo |-> Delay + 100, sinceTrigger |-> 0, found |-> FALSE,
     armed |-> FALSE, foundByLogo |-> FALSE, cancelled |-> FALSE,
     passes |-> 0, empties |-> 0, afterLogo |-> -1, afterTrigger |-> -1,
     size |-> -1]

\* faulty variant: the timer is never cleared
ClearNothing(d) == d

\* clearTimeout(reprocessTimerRef.current), lines 197-199 and 207-209
ClearTimer(d) ==
    IF d.ref # 0 THEN [d EXCEPT !.timers = {t \in @ : t.id # d.ref}] ELSE d

\* The effect runs again because customLogo, logoOpacity, logoSize or
\* reprocessAllImages has changed: the cleanup function of the previous run
\* (lines 206-210), then lines 194-204.  imgs is imagesRef.current; rdy
\* is the isReady that the reprocessAllImages of this render has closed
\* over.
DebounceEffect(d, imgs, rdy) ==
    LET cleaned == IF d.cleanup THEN ClearTimer(d) ELSE d
    IN  IF DOMAIN imgs = {}
        THEN [cleaned EXCEPT !.cleanup = FALSE]
        ELSE LET cleared == ClearTimer(cleaned)
                 id == cleared.ref + 1
             IN  [timers |-> cleared.timers \cup
                              {[id |-> id, left |-> Delay, ready |-> rdy]},
                  ref |-> id,
                  cleanup |-> TRUE]

\* the clock after a run of the effect; byLogo: a setting of the logo
\* changed
Triggered(c, d, imgs, byLogo) ==
    [c EXCEPT !.sinceTrigger = 0,
              !.found = DOMAIN imgs # {},
              !.armed = DOMAIN imgs # {},
              !.cancelled = d.timers # {},
              !.sinceLogo = IF byLogo THEN 0 ELSE @,
              !.foundByLogo = IF byLogo THEN DOMAIN imgs # {} ELSE @,
              !.passes = 0,
              !.empties = 0,
              !.afterLogo = -1,
              !.afterTrigger = -1,
              !.size = -1]

(***************************************************************************)
(* State                                                                   *)
(***************************************************************************)
VARIABLES
    page,        \* "react": App.jsx with WatermarkEngine; "legacy": UI with WatermarkProcessor
    we,          \* the WatermarkEngine: [alphaMaps, ready, logoValue]
    eLoad,       \* the two loadImage promises of WatermarkEngine.init
    weInit,      \* the promise we.init() returned
    initEngine,  \* App's initEngine: "running", "done" or "caught"
    appState,    \* React state of App: [engine, isReady]
    processor,   \* the WatermarkProcessor: [alphaMap48, alphaMap96, isReady]
    pLoad,       \* the image loads of loadAlphaMap: [a48, a96]
    procInit,    \* the promise processor.init() returned
    loadCalls,   \* how many times each reference bitmap was requested
    original,    \* the image file the user gave
    image,       \* a pixel buffer of it that callers restore in place
    calls,       \* restore calls made on image
    processedUrl, \* legacy: whether the file has a processedUrl
    last,        \* the last restore call and what it did
    images,      \* React state of App: the image objects, by id
    logo,        \* React state of App: how often customLogo, logoOpacity
                 \* or logoSize has been set
    tasks,       \* the calls of processImage that wait for their image
    debounce,    \* reprocessTimerRef, the timers set and not yet fired or
                 \* cleared, and whether the effect left a cleanup function
    user,        \* what the user has done with each file
    clock        \* time since the last change, and the last reprocess pass

vars == <<page, we, eLoad, weInit, initEngine, appState, processor, pLoad,
          procInit, loadCalls, original, image, calls, processedUrl, last,
          images, logo, tasks, debounce, user, clock>>

appVars == <<images, logo, tasks, debounce, user, clock>>

engineVars == <<we, eLoad, weInit, initEngine, appState>>

processorVars == <<processor, pLoad, procInit>>

targetVars == <<original, image, calls, processedUrl, last>>

NoCall(img) ==
    [impl |-> "none", via |-> "none", mode |-> NULL, override |-> NULL,
     intensity |-> <<10, 10>>, ready |-> FALSE, partial |-> FALSE,
     before |-> img, after |-> img, outcome |-> "none",
     config |-> NullObject, slot |-> NULL, alphaMap |-> NullObject,
     entered |-> FALSE, hits |-> {}, used |-> {}, access |-> {}]

\* useState([]), and the refs, of App before any event
NoImages == [id \in {} |-> NullObject]

InitApp ==
    /\ images = NoImages
    /\ logo = 0
    /\ tasks = <<>>
    /\ debounce = [timers |-> {}, ref |-> 0, cleanup |-> FALSE]
    /\ user = [wanted |-> NoImages, added |-> {}, removed |-> {}, updates |-> 0]
    /\ clock = NoChange

\* After construction.  react: new WatermarkEngine() and, from App's mount
\* effect, we.init(), which has requested both bitmaps.  legacy: new
\* WatermarkProcessor(), whose constructor called init(), which has
\* requested bg_48.png.
Init ==
    /\ page \in {"react", "legacy"}
    /\ we = [alphaMaps |-> [small |-> NullObject, large |-> NullObject],
             ready |-> FALSE, logoValue |-> logoValue]
    /\ eLoad = IF page = "react"
               THEN [small |-> "pending", large |-> "pending"]
               ELSE [small |-> "idle", large |-> "idle"]
    /\ weInit = IF page = "react" THEN "pending" ELSE "idle"
    /\ initEngine = IF page = "react" THEN "running" ELSE "idle"
    /\ appState = [engine |-> NULL, isReady |-> FALSE]
    /\ processor = [alphaMap48 |-> NullObject, alphaMap96 |-> NullObject,
                    isReady |-> FALSE]
    /\ pLoad = IF page = "legacy"
               THEN [a48 |-> "pending", a96 |-> "idle"]
               ELSE [a48 |-> "idle", a96 |-> "idle"]
    /\ procInit = IF page = "legacy" THEN "pending" ELSE "idle"
    /\ loadCalls = IF page = "react"
                   THEN [small |-> 1, large |-> 1]
                   ELSE [small |-> 1, large |-> 0]
    /\ original \in Images
    /\ image = original
    /\ calls = 0
    /\ processedUrl = FALSE
    /\ last = NoCall(original)
    /\ InitApp

(***************************************************************************)
(* Initialization of the engine (React page)                               *)
(***************************************************************************)
\* faulty variant: waits for both loads to settle and then fulfils, as
\* Promise.allSettled does
PromiseAllSettled(loads) ==
    IF loads.small \in {"loaded", "failed"} /\ loads.large \in {"loaded", "failed"}
    THEN "fulfilled"
    ELSE "pending"

\* Promise.all([loadImage(bgSmallUrl), loadImage(bgLargeUrl)])
PromiseAll(loads) ==
    IF loads.small = "failed" \/ loads.large = "failed" THEN "rejected"
    ELSE IF loads.small = "loaded" /\ loads.large = "loaded" THEN "fulfilled"
    ELSE "pending"

\* The rest of init and of initEngine, run as microtasks once a load has
\* settled: nothing else runs in between.
InitContinues ==
    LET all == PromiseAll(eLoad')
    IN  IF weInit = "pending" /\ all = "fulfilled"
        THEN /\ we' = [we EXCEPT
                           !.alphaMaps = [small |-> calculateAlphaMap(BG_48),
                                          large |-> calculateAlphaMap(BG_96)],
                           !.ready = TRUE]
             /\ weInit' = "fulfilled"
             /\ initEngine' = "done"
             /\ appState' = [engine |-> "we", isReady |-> TRUE]
        ELSE IF weInit = "pending" /\ all = "rejected"
        THEN /\ weInit' = "rejected"
             /\ initEngine' = "caught"
             /\ UNCHANGED <<we, appState>>
        ELSE UNCHANGED <<we, weInit, initEngine, appState>>

\* img.onload of loadImage.  When it makes isReady true, App renders with
\* a new processImage and so a new reprocessAllImages, and the effect of
\* lines 193-211 runs.
ImgOnload(k) ==
    /\ page = "react"
    /\ eLoad[k] = "pending"
    /\ eLoad' = [eLoad EXCEPT ![k] = "loaded"]
    /\ InitContinues
    /\ IF appState'.isReady # appState.isReady
       THEN /\ debounce' = DebounceEffect(debounce, images, TRUE)
            /\ clock' = Triggered(clock, debounce, images, FALSE)
       ELSE UNCHANGED <<debounce, clock>>
    /\ UNCHANGED <<images, logo, tasks, user>>
    /\ UNCHANGED <<page, processorVars, loadCalls, targetVars>>

\* img.onerror of loadImage
ImgOnerror(k) ==
    /\ page = "react"
    /\ eLoad[k] = "pending"
    /\ eLoad' = [eLoad EXCEPT ![k] = "failed"]
    /\ InitContinues
    /\ UNCHANGED <<appVars, page, processorVars, loadCalls, targetVars>>

(***************************************************************************)
(* Initialization of the processor (legacy page)                           *)
(***************************************************************************)
\* bg_48.png loads: alphaMap48 is assigned and bg_96.png is requested
Alpha48Onload ==
    /\ page = "legacy"
    /\ pLoad.a48 = "pending"
    /\ pLoad' = [a48 |-> "loaded", a96 |-> "pending"]
    /\ processor' = [processor EXCEPT !.alphaMap48 = loadAlphaMap(BG_48)]
    /\ loadCalls' = [loadCalls EXCEPT !.large = @ + 1]
    /\ UNCHANGED <<appVars, page, engineVars, procInit, targetVars>>

\* bg_48.png fails: the catch block logs, and init() completes normally
Alpha48Onerror ==
    /\ page = "legacy"
    /\ pLoad.a48 = "pending"
    /\ pLoad' = [pLoad EXCEPT !.a48 = "failed"]
    /\ procInit' = "fulfilled"
    /\ UNCHANGED <<appVars, page, engineVars, processor, loadCalls, targetVars>>

Alpha96Onload ==
    /\ page = "legacy"
    /\ pLoad.a96 = "pending"
    /\ pLoad' = [pLoad EXCEPT !.a96 = "loaded"]
    /\ processor' = [processor EXCEPT !.alphaMap96 = loadAlphaMap(BG_96),
                                      !.isReady = TRUE]
    /\ procInit' = "fulfilled"
    /\ UNCHANGED <<appVars, page, engineVars, loadCalls, targetVars>>

Alpha96Onerror ==
    /\ page = "legacy"
    /\ pLoad.a96 = "pending"
    /\ pLoad' = [pLoad EXCEPT !.a96 = "failed"]
    /\ procInit' = "fulfilled"
    /\ UNCHANGED <<appVars, page, engineVars, processor, loadCalls, targetVars>>

(***************************************************************************)
(* Restore calls                                                           *)
(***************************************************************************)
\* one alpha map is loaded and the other is not
EnginePartial == (we.alphaMaps.small = NullObject) # (we.alphaMaps.large = NullObject)

ProcessorPartial == (processor.alphaMap48 = NullObject) # (processor.alphaMap96 = NullObject)

Call(impl, via, mode, override, intensity, rdy, partial, before, res) ==
    [impl |-> impl, via |-> via, mode |-> mode, override |-> override,
     intensity |-> intensity, ready |-> rdy, partial |-> partial,
     before |-> before, after |-> res.buffer, outcome |-> res.outcome,
     config |-> res.config, slot |-> res.slot, alphaMap |-> res.alphaMap,
     entered |-> res.entered, hits |-> res.hits, used |-> res.used,
     access |-> res.access]

\* the user gives a file (handleFiles)
NewImage(img) ==
    /\ original' = img
    /\ image' = img
    /\ calls' = 0
    /\ processedUrl' = FALSE
    /\ last' = NoCall(img)
    /\ UNCHANGED <<appVars, page, engineVars, processorVars, loadCalls>>

\* faulty variant: the loop scales the entries of the alpha map in place
\* (alphaMap.data[i] *= intensity)
EngineProcessCallScalesMap(forceSize, intensity) ==
    /\ page = "react"
    /\ calls < MaxCalls
    /\ LET res == EngineProcess(we.alphaMaps, we.ready, image, forceSize, intensity)
       IN  /\ last' = Call("engine", "direct", NULL, forceSize, intensity,
                           we.ready, EnginePartial, image, res)
           /\ image' = res.buffer
           /\ we' = IF res.entered
                    THEN [we EXCEPT !.alphaMaps[res.slot].data.at =
                             [i \in DOMAIN @ |->
                                 (@[i] * intensity[1]) \div intensity[2]]]
                    ELSE we
    /\ calls' = calls + 1
    /\ UNCHANGED <<appVars, page, eLoad, weInit, initEngine, appState, processorVars,
                   loadCalls, original, processedUrl>>

\* some caller calls we.process(canvas, forceSize, intensity)
EngineProcessCall(forceSize, intensity) ==
    /\ page = "react"
    /\ calls < MaxCalls
    /\ LET res == EngineProcess(we.alphaMaps, we.ready, image, forceSize, intensity)
       IN  /\ last' = Call("engine", "direct", NULL, forceSize, intensity,
                           we.ready, EnginePartial, image, res)
           /\ image' = res.buffer
    /\ calls' = calls + 1
    /\ UNCHANGED <<appVars, page, engineVars, processorVars, loadCalls, original, processedUrl>>

\* App.jsx lines 84-86
AppForceSize(sizeMode) ==
    IF sizeMode = "auto" THEN NULL
    ELSE IF sizeMode = "small" THEN WATERMARK_SIZE.SMALL
    ELSE WATERMARK_SIZE.LARGE

\* App.jsx processImage(imageObj), on a canvas drawn from the original
AppProcessImage(sizeMode, intensity) ==
    /\ page = "react"
    /\ IF appState.engine = NULL \/ ~appState.isReady
       THEN last' = [NoCall(original) EXCEPT !.impl = "engine",
                        !.via = "processImage", !.mode = sizeMode,
                        !.intensity = intensity, !.outcome = "skipped"]
       ELSE LET forceSize == AppForceSize(sizeMode)
                res == EngineProcess(we.alphaMaps, we.ready, original,
                                     forceSize, intensity)
            IN  last' = Call("engine", "processImage", sizeMode, forceSize,
                             intensity, we.ready, EnginePartial, original, res)
    /\ UNCHANGED <<appVars, page, engineVars, processorVars, loadCalls, original,
                   image, calls, processedUrl>>

\* some caller calls processor.process(imageData, forceMode)
ProcessorProcessCall(forceMode) ==
    /\ page = "legacy"
    /\ calls < MaxCalls
    /\ LET res == ProcessorProcess(processor, image, forceMode, logoValue)
       IN  /\ last' = Call("processor", "direct", NULL, forceMode, <<10, 10>>,
                           processor.isReady, ProcessorPartial, image, res)
           /\ image' = res.buffer
    /\ calls' = calls + 1
    /\ UNCHANGED <<appVars, page, engineVars, processorVars, loadCalls, original, processedUrl>>

\* UI.processImage(index), on image data drawn from the file
UIProcessImage(via, mode) ==
    LET res == ProcessorProcess(processor, original, mode, logoValue)
    IN  /\ last' = Call("processor", via, mode, mode, <<10, 10>>,
                        processor.isReady, ProcessorPartial, original, res)
        /\ processedUrl' = TRUE

\* UI.showPreview(index) of a file that has no processedUrl
UIShowPreview(mode) ==
    /\ page = "legacy"
    /\ ~processedUrl
    /\ UIProcessImage("showPreview", mode)
    /\ UNCHANGED <<appVars, page, engineVars, processorVars, loadCalls, original, image, calls>>

\* UI.processAll()
UIProcessAll(mode) ==
    /\ page = "legacy"
    /\ IF ~processor.isReady
       THEN /\ last' = [NoCall(original) EXCEPT !.impl = "processor",
                           !.via = "processAll", !.mode = mode,
                           !.outcome = "skipped"]
            /\ UNCHANGED processedUrl
       ELSE UIProcessImage("processAll", mode)
    /\ UNCHANGED <<appVars, page, engineVars, processorVars, loadCalls, original, image, calls>>

Next ==
    \/ \E k \in {"small", "large"} : ImgOnload(k)
    \/ \E k \in {"small", "large"} : ImgOnerror(k)
    \/ Alpha48Onload
    \/ Alpha48Onerror
    \/ Alpha96Onload
    \/ Alpha96Onerror
    \/ \E img \in Images : NewImage(img)
    \/ \E f \in ForceSizes, t \in Intensities : EngineProcessCall(f, t)
    \/ \E m \in SizeModes, t \in Intensities : AppProcessImage(m, t)
    \/ \E m \in ForceModes : ProcessorProcessCall(m)
    \/ \E m \in ForceModes : UIShowPreview(m)
    \/ \E m \in ForceModes : UIProcessAll(m)

Spec == Init /\ [][Next]_vars

(***************************************************************************)
(* App.jsx: the image list.  An image object is [id, ok, sizeMode,         *)
(* intensity, processedUrl, processing]; ok says whether the file decodes  *)
(* (it stands for file and originalUrl).  processedUrl is null or names    *)
(* the settings of the image object that the data URL was made from:       *)
(* [sizeMode, intensity].  Event handlers run on the state of the last     *)
(* render.                                                                 *)
(***************************************************************************)
\* the files the user has: file 1 decodes, file 2 does not
Ids == {1, 2}

Decodes(id) == id = 1

\* how many times the user changes a setting of an image, and of the logo
MaxUpdates == 2

MaxLogoChanges == 2

\* the user starts nothing new while this many processImage calls wait
MaxTasks == 2

\* the values the user picks in the select and on the slider of a card
CardSizeModes == {"auto", "small"}

CardIntensities == {<<10, 10>>, <<20, 10>>}

\* the members of S in increasing order
InOrder(S) ==
    CHOOSE q \in [1..Cardinality(S) -> S] :
        \A i, j \in 1..Cardinality(S) : i < j => q[i] < q[j]

\* line 69: processImage returns imageObj as it is
ProcessImageSkips(engine, isReady) == engine = NULL \/ ~isReady

\* lines 71-111: what processImage returns once the image has loaded
\* (line 107) or has failed to (line 110)
ProcessImageResult(imageObj) ==
    IF imageObj.ok
    THEN [imageObj EXCEPT !.processedUrl = [sizeMode |-> imageObj.sizeMode,
                                           intensity |-> imageObj.intensity],
                          !.processing = FALSE]
    ELSE [imageObj EXCEPT !.processing = FALSE]

\* prev.map(i => i.id === id ? processed : i), lines 133, 185 and 235
Replaced(prev, id, processed) ==
    IF id \in DOMAIN prev THEN [prev EXCEPT ![id] = processed] ELSE prev

\* handleFiles(files), lines 114-135; files are the ids of the files
HandleFiles(files) ==
    /\ page = "react"
    /\ files # {}
    /\ files \cap user.added = {}
    /\ Len(tasks) < MaxTasks
    /\ LET newImages == [id \in files |->
                            [id |-> id, ok |-> Decodes(id), sizeMode |-> "auto",
                             intensity |-> <<10, 10>>,
                             processedUrl |-> NullObject, processing |-> TRUE]]
           order == InOrder(files)
       IN  /\ images' = newImages @@ images
           /\ tasks' = IF ProcessImageSkips(appState.engine, appState.isReady)
                       THEN tasks
                       ELSE Append(tasks,
                                [kind |-> "handleFiles",
                                 queue |-> [i \in DOMAIN order |-> newImages[order[i]]]])
           /\ user' = [user EXCEPT
                          !.added = @ \cup files,
                          !.wanted = [id \in files |->
                                         [sizeMode |-> "auto",
                                          intensity |-> <<10, 10>>]] @@ @]
    /\ UNCHANGED <<page, engineVars, processorVars, loadCalls, targetVars,
                   logo, debounce, clock>>

\* updateImageSetting(id, key, value), lines 226-237
UpdateImageSetting(id, key, value) ==
    /\ page = "react"
    /\ id \in DOMAIN images
    /\ images[id][key] # value
    /\ user.updates < MaxUpdates
    /\ Len(tasks) < MaxTasks
    /\ LET marked == [images EXCEPT ![id] = [@ EXCEPT ![key] = value,
                                                      !.processing = TRUE]]
           targetImg == images[id]
           updated == [targetImg EXCEPT ![key] = value]
       IN  IF ProcessImageSkips(appState.engine, appState.isReady)
           THEN /\ images' = Replaced(marked, id, updated)
                /\ UNCHANGED tasks
           ELSE /\ images' = marked
                /\ tasks' = Append(tasks, [kind |-> "update",
                                           queue |-> <<updated>>])
    /\ user' = [user EXCEPT !.wanted[id][key] = value, !.updates = @ + 1]
    /\ UNCHANGED <<page, engineVars, processorVars, loadCalls, targetVars,
                   logo, debounce, clock>>

\* removeImage(id), lines 239-241
RemoveImage(id) ==
    /\ page = "react"
    /\ id \in DOMAIN images
    /\ images' = [i \in DOMAIN images \ {id} |-> images[i]]
    /\ user' = [user EXCEPT !.removed = @ \cup {id}]
    /\ UNCHANGED <<page, engineVars, processorVars, loadCalls, targetVars,
                   logo, tasks, debounce, clock>>

\* The image of the processImage call that task n waits for loads or
\* fails: the call returns, its caller replaces the image object (lines
\* 133, 185, 235), and a loop goes on to its next image.
LoadSettles(n) ==
    /\ page = "react"
    /\ n \in DOMAIN tasks
    /\ LET task == tasks[n]
           imageObj == Head(task.queue)
           processed == ProcessImageResult(imageObj)
       IN  /\ images' = Replaced(images, imageObj.id, processed)
           /\ tasks' = IF Len(task.queue) > 1
                       THEN [tasks EXCEPT ![n].queue = Tail(@)]
                       ELSE SubSeq(tasks, 1, n - 1) \o SubSeq(tasks, n + 1, Len(tasks))
    /\ UNCHANGED <<page, engineVars, processorVars, loadCalls, targetVars,
                   logo, debounce, user, clock>>

\* handleLogoChange, clearLogo, setLogoOpacity or setLogoSize (lines
\* 157-166, 355, 366), and the effect of lines 193-211 after the render
LogoChange ==
    /\ page = "react"
    /\ logo < MaxLogoChanges
    /\ Len(tasks) < MaxTasks
    /\ logo' = logo + 1
    /\ debounce' = DebounceEffect(debounce, images, appState.isReady)
    /\ clock' = Triggered(clock, debounce, images, TRUE)
    /\ UNCHANGED <<page, engineVars, processorVars, loadCalls, targetVars,
                   images, tasks, user>>

\* 100 ms pass in which no timer is due
Tick ==
    /\ page = "react"
    /\ \A t \in debounce.timers : t.left > 0
    /\ debounce' = [debounce EXCEPT
                       !.timers = {[t EXCEPT !.left = @ - 100] : t \in @}]
    /\ clock' = [clock EXCEPT
                    !.sinceLogo = IF @ > Delay THEN @ ELSE @ + 100,
                    !.sinceTrigger = IF @ > Delay THEN @ ELSE @ + 100]
    /\ UNCHANGED <<page, engineVars, processorVars, loadCalls, targetVars,
                   images, logo, tasks, user>>

\* line 177 of reprocessAllImages
ReprocessReturns(currentImages) == DOMAIN currentImages = {}

\* A timer of line 202 fires and calls the reprocessAllImages of its
\* render (lines 175-187).  With a processImage that returns imageObj as
\* it is, every image object is marked and then put back as it was.
TimerFires ==
    /\ page = "react"
    /\ \E t \in debounce.timers :
          /\ t.left = 0
          /\ debounce' = [debounce EXCEPT !.timers = @ \ {t}]
          /\ IF ReprocessReturns(images)
             THEN /\ clock' = [clock EXCEPT !.armed = FALSE,
                                             !.empties = @ + 1]
                  /\ UNCHANGED <<images, tasks>>
             ELSE /\ clock' = [clock EXCEPT
                                  !.armed = FALSE,
                                  !.passes = @ + 1,
                                  !.afterLogo = clock.sinceLogo,
                                  !.afterTrigger = clock.sinceTrigger,
                                  !.size = Cardinality(DOMAIN images)]
                  /\ IF ProcessImageSkips(IF t.ready THEN "we" ELSE NULL, t.ready)
                     THEN UNCHANGED <<images, tasks>>
                     ELSE LET order == InOrder(DOMAIN images)
                          IN  /\ images' = [id \in DOMAIN images |->
                                               [images[id] EXCEPT !.processing = TRUE]]
                              /\ tasks' = Append(tasks,
                                     [kind |-> "reprocess",
                                      queue |-> [i \in DOMAIN order |-> images[order[i]]]])
    /\ UNCHANGED <<page, engineVars, processorVars, loadCalls, targetVars,
                   logo, user>>

\* The React page with one file list; the restore calls themselves are
\* the subject of Spec.
InitAppPage ==
    /\ Init
    /\ page = "react"
    /\ original = MkImage(1024, 1024, <<255, 255, 255, 255>>, NoPixels)

NextApp ==
    \/ \E k \in {"small", "large"} : ImgOnload(k)
    \/ \E k \in {"small", "large"} : ImgOnerror(k)
    \/ \E files \in SUBSET Ids : HandleFiles(files)
    \/ \E id \in Ids, m \in CardSizeModes : UpdateImageSetting(id, "sizeMode", m)
    \/ \E id \in Ids, t \in CardIntensities : UpdateImageSetting(id, "intensity", t)
    \/ \E id \in Ids : RemoveImage(id)
    \/ \E n \in 1..(MaxTasks + MaxLogoChanges + 1) : LoadSettles(n)
    \/ LogoChange
    \/ Tick
    \/ TimerFires

SpecApp == InitAppPage /\ [][NextApp]_vars

\* the App of a user who leaves the select and the slider of the cards alone
NextDebounce ==
    \/ \E k \in {"small", "large"} : ImgOnload(k)
    \/ \E k \in {"small", "large"} : ImgOnerror(k)
    \/ \E files \in SUBSET Ids : HandleFiles(files)
    \/ \E id \in Ids : RemoveImage(id)
    \/ \E n \in 1..(MaxTasks + MaxLogoChanges + 1) : LoadSettles(n)
    \/ LogoChange
    \/ Tick
    \/ TimerFires

SpecDebounce == InitAppPage /\ [][NextDebounce]_vars

(***************************************************************************)
(* Round trip: a watermark is blended onto a flat image with a known alpha *)
(* map, the result is stored as 8-bit RGBA, and the restore calls run on   *)
(* it with intensity 1.0.                                                  *)
(***************************************************************************)
\* a 48x48 reference bitmap with every brightness: pixel i has brightness
\* i, for i in 0..255
Levels48 ==
    [width |-> 48, height |-> 48, fill |-> <<0, 0, 0, 255>>,
     px |-> [i \in 0..255 |-> <<i, i \div 2, 0, 255>>]]

\* flat opaque 100x100 images: over the three colour channels they hold
\* every 8-bit value
FlatImages ==
    { MkImage(100, 100, <<v, v + 85, v + 170, 255>>, NoPixels) : v \in 0..85 }

\* original * (1 - alpha) + alpha * 255 with alpha = m/255, stored as an
\* 8-bit value
Blend(v, m) == ToUint8Clamped(<<v * (255 - m) + m * 255, 255>>)

\* the image with the watermark of alphaMap blended onto the logoSize
\* square whose top-left corner is (x, y)
Watermarked(img, alphaMap, x, y) ==
    LET n == alphaMap.width
        At(i) == PixelNo(img, x + (i % n), y + (i \div n))
        marked == {i \in DOMAIN alphaMap.data.at : alphaMap.data.at[i] > 0}
    IN  [img EXCEPT !.px =
            [p \in {At(i) : i \in marked} |->
                LET i == ((p \div img.width) - y) * n + ((p % img.width) - x)
                    m == alphaMap.data.at[i]
                    old == PixelAt(img, p)
                IN  <<Blend(old[1], m), Blend(old[2], m), Blend(old[3], m),
                      old[4]>>] @@ img.px]

\* Both implementations have initialized with Levels48 as bg_48.png; the
\* user's file is a flat image carrying the small watermark.
InitRoundTrip ==
    /\ page \in {"react", "legacy"}
    /\ we = [alphaMaps |-> [small |-> calculateAlphaMap(Levels48),
                            large |-> calculateAlphaMap(BG_96)],
             ready |-> TRUE, logoValue |-> logoValue]
    /\ eLoad = IF page = "react"
               THEN [small |-> "loaded", large |-> "loaded"]
               ELSE [small |-> "idle", large |-> "idle"]
    /\ weInit = IF page = "react" THEN "fulfilled" ELSE "idle"
    /\ initEngine = IF page = "react" THEN "done" ELSE "idle"
    /\ appState = IF page = "react"
                  THEN [engine |-> "we", isReady |-> TRUE]
                  ELSE [engine |-> NULL, isReady |-> FALSE]
    /\ processor = [alphaMap48 |-> loadAlphaMap(Levels48),
                    alphaMap96 |-> loadAlphaMap(BG_96),
                    isReady |-> TRUE]
    /\ pLoad = IF page = "legacy"
               THEN [a48 |-> "loaded", a96 |-> "loaded"]
               ELSE [a48 |-> "idle", a96 |-> "idle"]
    /\ procInit = IF page = "legacy" THEN "fulfilled" ELSE "idle"
    /\ loadCalls = IF page = "react"
                   THEN [small |-> 1, large |-> 1]
                   ELSE [small |-> 1, large |-> 1]
    /\ original \in FlatImages
    /\ image = Watermarked(original, calculateAlphaMap(Levels48), 20, 20)
    /\ calls = 0
    /\ processedUrl = FALSE
    /\ last = NoCall(image)
    /\ InitApp

NextRoundTrip ==
    \/ EngineProcessCall(NULL, <<10, 10>>)
    \/ ProcessorProcessCall("auto")

SpecRoundTrip == InitRoundTrip /\ [][NextRoundTrip]_vars

(***************************************************************************)
(* Properties: initialization and readiness                                *)
(***************************************************************************)
\* a restore entry point was called (process ran), whatever it then did
Called == last.outcome \in {"threw", "returned"}

\* C1: a restore call made while the ready flag is false fails with the
\* engine-not-ready error, for WatermarkEngine.process and for
\* WatermarkProcessor.process alike, whatever the override.
C1_NotReadyCallThrows ==
    (Called /\ ~last.ready) => last.outcome = "threw"

\* C2: once either reference bitmap has failed to load, no ready flag is
\* true: not the engine's, not the App's isReady, not the processor's.
C2_NeverReadyAfterLoadFailure ==
    /\ (eLoad.small = "failed" \/ eLoad.large = "failed")
          => (~we.ready /\ ~appState.isReady)
    /\ (pLoad.a48 = "failed" \/ pLoad.a96 = "failed")
          => ~processor.isReady

\* one bitmap has loaded and the other has failed
C2_Witness ==
    \/ eLoad.small = "loaded" /\ eLoad.large = "failed"
    \/ pLoad.a48 = "loaded" /\ pLoad.a96 = "failed"

\* C3: no restore call transforms a pixel while exactly one alpha map is
\* loaded.
C3_NoTransformWhilePartial ==
    (Called /\ last.partial) => last.hits = {}

\* C4: a failed bitmap load makes the promise of init reject, so that its
\* caller sees an error, and no bitmap is requested a second time.
C4_InitFailurePropagates ==
    /\ (eLoad.small = "failed" \/ eLoad.large = "failed")
          => (weInit = "rejected" /\ initEngine = "caught")
    /\ (pLoad.a48 = "failed" \/ pLoad.a96 = "failed")
          => procInit = "rejected"
    /\ loadCalls.small <= 1
    /\ loadCalls.large <= 1

(***************************************************************************)
(* Properties: variant selection                                           *)
(***************************************************************************)
\* the placement the last call selected, in the words of the specification
Selected == last.config # NullObject

LogoSize == IF last.impl = "engine" THEN last.config.logo_size ELSE last.config.size

MarginRight == IF last.impl = "engine" THEN last.config.margin_right ELSE last.config.margin

MarginBottom == IF last.impl = "engine" THEN last.config.margin_bottom ELSE last.config.margin

IsLarge == LogoSize = 96 /\ MarginRight = 64 /\ MarginBottom = 64

IsSmall == LogoSize = 48 /\ MarginRight = 32 /\ MarginBottom = 32

\* the override of the last call, in the words of the specification
Override ==
    IF last.impl = "engine"
    THEN IF last.override = NULL THEN "AUTO"
         ELSE IF last.override = WATERMARK_SIZE.SMALL THEN "SMALL" ELSE "LARGE"
    ELSE IF last.override = "48" THEN "SMALL"
         ELSE IF last.override = "96" THEN "LARGE" ELSE "AUTO"

\* C5: with override AUTO the selector returns LARGE if and only if width
\* and height are both above 1024, and SMALL otherwise.
C5_AutoLargeIffBothAbove1024 ==
    (Selected /\ Override = "AUTO") =>
        IF last.before.width > 1024 /\ last.before.height > 1024
        THEN IsLarge
        ELSE IsSmall

\* an AUTO call on the 1025x1024 image has selected a placement
C5_Witness ==
    /\ Selected
    /\ Override = "AUTO"
    /\ last.before.width = 1025
    /\ last.before.height = 1024
    /\ IsSmall

\* C6: an explicit SMALL (LARGE) override selects the SMALL (LARGE)
\* placement and the small (large) alpha map whatever the dimensions, and
\* the size mode of the App's select reaches the engine as that override.
C6_ExplicitOverrideWins ==
    /\ (Selected /\ Override = "SMALL") =>
          (IsSmall /\ last.slot \in {"small", "alphaMap48"})
    /\ (Selected /\ Override = "LARGE") =>
          (IsLarge /\ last.slot \in {"large", "alphaMap96"})
    /\ (Selected /\ last.via = "processImage") =>
          /\ last.mode = "auto" => Override = "AUTO"
          /\ last.mode = "small" => (Override = "SMALL" /\ IsSmall)
          /\ last.mode = "large" => (Override = "LARGE" /\ IsLarge)

\* the App has restored the 2000x2000 image in size mode small
C6_Witness ==
    /\ last.via = "processImage"
    /\ last.mode = "small"
    /\ last.before.width = 2000
    /\ last.entered
    /\ IsSmall

(***************************************************************************)
(* Properties: the pixel transform                                         *)
(***************************************************************************)
\* the ROI of the specification: its origin, and whether pixel number p of
\* the image before the call lies in it
RoiX == last.before.width - MarginRight - LogoSize

RoiY == last.before.height - MarginBottom - LogoSize

XOf(p) == p % last.before.width

YOf(p) == p \div last.before.width

InRoi(p) ==
    /\ XOf(p) >= RoiX /\ XOf(p) < RoiX + LogoSize
    /\ YOf(p) >= RoiY /\ YOf(p) < RoiY + LogoSize

\* the alpha map index that lies over pixel p of the ROI
RoiIndex(p) == (YOf(p) - RoiY) * LogoSize + (XOf(p) - RoiX)

\* Every pixel that is listed neither before nor after the call has the
\* fill value of its buffer, so two buffers with the same fill agree on
\* all of them.
ListedPixels == DOMAIN last.before.px \cup DOMAIN last.after.px

\* C7: a restore call changes only R, G and B of pixels inside the ROI; the
\* pixels outside it, every alpha channel and the dimensions stay as they
\* were, and a call that fails changes nothing.
C7_OnlyRoiColourChanges ==
    Called =>
        /\ last.after.width = last.before.width
        /\ last.after.height = last.before.height
        /\ last.after.fill = last.before.fill
        /\ ~Selected => last.after = last.before
        /\ Selected =>
              \A p \in ListedPixels :
                  /\ PixelAt(last.after, p)[4] = PixelAt(last.before, p)[4]
                  /\ ~InRoi(p) => PixelAt(last.after, p) = PixelAt(last.before, p)

\* a call has changed a pixel whose alpha channel is not 255
C7_Witness ==
    /\ last.entered
    /\ \E p \in ListedPixels :
          /\ PixelAt(last.after, p) # PixelAt(last.before, p)
          /\ PixelAt(last.before, p)[4] # 255

Undersized ==
    \/ last.before.width < LogoSize + MarginRight
    \/ last.before.height < LogoSize + MarginBottom

\* C8: restoring an image smaller than logoSize + margin raises no error,
\* touches only positions (x, y) inside the image, each at its own
\* row-major index inside the pixel array, and changes no pixel outside
\* the ROI.
C8_UndersizedImageIsSafe ==
    (Selected /\ Undersized) =>
        /\ last.outcome = "returned"
        /\ \A acc \in last.access :
              /\ acc[1] >= 0 /\ acc[1] < last.before.width
              /\ acc[2] >= 0 /\ acc[2] < last.before.height
              /\ acc[3] = (acc[2] * last.before.width + acc[1]) * 4
              /\ acc[3] >= 0
              /\ acc[3] + 3 < last.before.width * last.before.height * 4
        /\ \A p \in ListedPixels :
              PixelAt(last.after, p) # PixelAt(last.before, p) =>
                  /\ InRoi(p)
                  /\ <<XOf(p), YOf(p), p * 4>> \in last.access

\* a call on the 40x40 image has restored pixels of the part of the ROI
\* that lies inside the image
C8_Witness ==
    /\ Selected
    /\ Undersized
    /\ last.before.width = 40
    /\ RoiX < 0
    /\ last.access # {}
    /\ last.after # last.before

\* the alpha map entries of the last call that lie over a pixel of the
\* image and whose value scaled by the intensity reaches the threshold
\* (the map's unlisted entries are 0 in every reference bitmap)
DueEntries ==
    {i \in DOMAIN last.alphaMap.data.at :
        /\ i < LogoSize * LogoSize
        /\ RoiX + (i % LogoSize) >= 0
        /\ RoiX + (i % LogoSize) < last.before.width
        /\ RoiY + (i \div LogoSize) >= 0
        /\ RoiY + (i \div LogoSize) < last.before.height
        /\ ~RLess(RMul(<<last.alphaMap.data.at[i], 255>>, last.intensity),
                  ALPHA_THRESHOLD)}

\* C9: when the ROI origin is negative in an axis, every ROI pixel that
\* lies inside the image and whose scaled alpha reaches the threshold is
\* transformed.
C9_PartialOverlapRestoredPerPixel ==
    (Selected /\ last.alphaMap # NullObject /\ (RoiX < 0 \/ RoiY < 0)) =>
        DueEntries \subseteq last.hits

\* C10: a pixel of the ROI whose alpha map entry is below 0.002 is the
\* same after the call as before, whatever the intensity.
C10_BelowThresholdEntryKeepsPixel ==
    last.entered =>
        /\ last.after.fill = last.before.fill
        /\ \A p \in ListedPixels :
              (/\ InRoi(p)
               /\ RLess(<<Entry(last.alphaMap.data, RoiIndex(p)), 255>>,
                        ALPHA_THRESHOLD))
                  => PixelAt(last.after, p) = PixelAt(last.before, p)

\* a call with intensity 2.0 has changed pixels of an image in which a
\* listed pixel lies under an entry below the threshold
C10_Witness ==
    /\ last.entered
    /\ last.intensity = <<20, 10>>
    /\ last.after # last.before
    /\ \E p \in DOMAIN last.before.px :
          /\ InRoi(p)
          /\ RLess(<<Entry(last.alphaMap.data, RoiIndex(p)), 255>>,
                   ALPHA_THRESHOLD)

\* C11: the alpha with which the inverse-blend formula runs never exceeds
\* 0.99, so that its denominator 1 - alpha is at least 0.01.
C11_EffectiveAlphaAtMostMax ==
    \A a \in last.used :
        /\ ~RLess(MAX_ALPHA, a)
        /\ ~RLess(RSub(RInt(1), a), <<1, 100>>)

\* a call with intensity 2.0 has used the clamped alpha 0.99 and an
\* unclamped one
C11_Witness ==
    /\ last.entered
    /\ last.intensity = <<20, 10>>
    /\ \E a \in last.used : ~RLess(a, MAX_ALPHA)
    /\ \E a \in last.used : RLess(a, MAX_ALPHA)

\* the first restore call of a round trip has run on the watermarked image
RoundTripRestored ==
    /\ calls = 1
    /\ last.entered
    /\ last.intensity = <<10, 10>>
    /\ last.before # original

\* what the restore call left of the original value under alpha map entry i
RoundTripError(i, c) ==
    LET p == PixelNo(original, 20 + (i % 48), 20 + (i \div 48))
        d == PixelAt(last.after, p)[c] - PixelAt(original, p)[c]
    IN  IF d < 0 THEN -d ELSE d

\* the alpha map entries m/255 below bound
EntriesBelow(bound) ==
    {i \in DOMAIN last.alphaMap.data.at : RLess(<<Entry(last.alphaMap.data, i), 255>>, bound)}

\* C12 as stated: blending with any alpha < 0.99, storing as 8 bits and
\* restoring with intensity 1.0 gives back each channel within +/-1.
C12_RoundTripWithinOneBelowMaxAlpha ==
    RoundTripRestored =>
        \A i \in EntriesBelow(MAX_ALPHA), c \in 1..3 : RoundTripError(i, c) <= 1

\* C12, amended: the round trip gives back each channel within +/-1 for
\* every alpha below 2/3.
C12_RoundTripWithinOneBelowTwoThirds ==
    RoundTripRestored =>
        \A i \in EntriesBelow(<<2, 3>>), c \in 1..3 : RoundTripError(i, c) <= 1

\* a round trip in which some channel under an alpha of at least 1/2 came
\* back exactly and another one off by one
C12_Witness ==
    /\ RoundTripRestored
    /\ \E i \in EntriesBelow(<<2, 3>>), c \in 1..3 :
          /\ ~RLess(<<Entry(last.alphaMap.data, i), 255>>, <<1, 2>>)
          /\ RoundTripError(i, c) = 1
    /\ \E i \in EntriesBelow(<<2, 3>>), c \in 1..3 :
          /\ ~RLess(<<Entry(last.alphaMap.data, i), 255>>, <<1, 2>>)
          /\ RoundTripError(i, c) = 0

\* the listed pixels the last call transformed
Transformed == {p \in ListedPixels : InRoi(p) /\ RoiIndex(p) \in last.hits}

\* the alpha of the formula for alpha map entry i: the entry times the
\* intensity, at most 0.99
EffectiveAlpha(i) ==
    RMin(RMul(<<Entry(last.alphaMap.data, i), 255>>, last.intensity), <<99, 100>>)

\* (watermarked - alpha * 255) / (1 - alpha), clamped to [0, 255]
InverseBlend(watermarked, alpha) ==
    LET r == RDiv(RSub(RInt(watermarked), RMul(alpha, RInt(255))),
                  RSub(RInt(1), alpha))
    IN  IF RLess(r, RInt(0)) THEN RInt(0)
        ELSE IF RLess(RInt(255), r) THEN RInt(255)
        ELSE r

\* a and b are the same number
Same(a, b) == a[1] * b[2] = b[1] * a[2]

\* k is an integer nearest to q
Nearest(k, q) ==
    /\ 2 * (k * q[2] - q[1]) <= q[2]
    /\ 2 * (q[1] - k * q[2]) <= q[2]

EightBit(buf) ==
    /\ \A c \in 1..4 : buf.fill[c] \in 0..255
    /\ \A p \in DOMAIN buf.px, c \in 1..4 : buf.px[p][c] \in 0..255

\* C13: each of R, G, B of a transformed pixel is stored as
\* (watermarked - alpha * 255) / (1 - alpha), clamped to [0, 255] and rounded
\* to the nearest integer: 200 under alpha 0.5 becomes 145.  Every channel
\* of the image is an integer in 0..255 after every restore call.
C13_StoredIsClampedRoundedInverseBlend ==
    /\ last.entered =>
          \A p \in Transformed, c \in 1..3 :
              LET watermarked == PixelAt(last.before, p)[c]
                  alpha == EffectiveAlpha(RoiIndex(p))
                  stored == PixelAt(last.after, p)[c]
              IN  /\ Nearest(stored, InverseBlend(watermarked, alpha))
                  /\ watermarked = 200 /\ Same(alpha, <<1, 2>>) => stored = 145
    /\ EightBit(image)
    /\ EightBit(last.after)

\* the second restore call on a buffer has stored 145 for a channel that
\* held 200 under alpha 0.5, and has clamped another channel
C13_Witness ==
    /\ last.entered
    /\ calls = 2
    /\ \E p \in Transformed :
          /\ PixelAt(last.before, p)[1] = 200
          /\ Same(EffectiveAlpha(RoiIndex(p)), <<1, 2>>)
          /\ PixelAt(last.after, p)[1] = 145
    /\ \E p \in Transformed, c \in 1..3 :
          /\ PixelAt(last.after, p)[c] = 0
          /\ PixelAt(last.before, p)[c] # 0

\* the image pixel under alpha map entry (row, col) = (i \div logoSize,
\* i % logoSize)
PixelUnder(i) == <<RoiX + (i % LogoSize), RoiY + (i \div LogoSize)>>

\* C14: the ROI is the logoSize x logoSize square whose top-left corner is
\* (width - marginRight - logoSize, height - marginBottom - logoSize), and
\* alpha map entry (row, col) is applied to image pixel (x + col, y + row);
\* for a 2000x2000 image in AUTO mode it is the 96x96 square at (1840, 1840).
C14_RoiGeometry ==
    last.entered =>
        /\ last.impl = "processor" =>
              last.config.x = RoiX /\ last.config.y = RoiY
        /\ {<<a[1], a[2]>> : a \in last.access} = {PixelUnder(i) : i \in last.hits}
        /\ \A a \in last.access : a[3] = PixelNo(last.before, a[1], a[2]) * 4
        /\ \A i \in last.hits, c \in 1..3 :
              LET p == PixelNo(last.before, PixelUnder(i)[1], PixelUnder(i)[2])
              IN  Nearest(PixelAt(last.after, p)[c],
                          InverseBlend(PixelAt(last.before, p)[c], EffectiveAlpha(i)))
        /\ (last.before.width = 2000 /\ last.before.height = 2000
               /\ Override = "AUTO") =>
              /\ LogoSize = 96 /\ RoiX = 1840 /\ RoiY = 1840
              /\ \A a \in last.access : a[1] \in 1840..1935 /\ a[2] \in 1840..1935

\* an AUTO call on the 2000x2000 image has applied the first and the last
\* entry of the large alpha map, at (1840, 1840) and (1935, 1935)
C14_Witness ==
    /\ last.entered
    /\ last.before.width = 2000 /\ last.before.height = 2000
    /\ Override = "AUTO"
    /\ {0, 9215} \subseteq last.hits
    /\ {<<1840, 1840>>, <<1935, 1935>>} \subseteq {<<a[1], a[2]>> : a \in last.access}
    /\ PixelAt(last.after, 3681840) # PixelAt(last.before, 3681840)

\* C15: once initialization has succeeded no step, and so no restore call,
\* changes the alpha maps, the ready flag or the logo value, and ready never
\* reverts to false.
C15_ReadyEngineStateIsFrozen ==
    [][/\ we.ready => we' = we
       /\ processor.isReady => processor' = processor]_vars

\* two restore calls have run on an initialized engine, the last of them
\* returning early, and the engine still holds both alpha maps
C15_Witness ==
    /\ calls = 2
    /\ last.ready
    /\ last.outcome = "returned"
    /\ ~last.entered
    /\ \/ /\ we.ready /\ we.logoValue = 255
          /\ we.alphaMaps.small = calculateAlphaMap(BG_48)
          /\ we.alphaMaps.large = calculateAlphaMap(BG_96)
       \/ /\ processor.isReady
          /\ processor.alphaMap48 = loadAlphaMap(BG_48)

\* m is a loaded n x n alpha map: width * height entries, each k/255 with
\* k in 0..255
SquareMap(m, n) ==
    /\ m # NullObject
    /\ m.width = n /\ m.height = n
    /\ m.data.length = m.width * m.height
    /\ DOMAIN m.data.at \subseteq 0..(m.data.length - 1)
    /\ m.data.fill \in 0..255
    /\ \A i \in DOMAIN m.data.at : m.data.at[i] \in 0..255

\* C16: when the engine is ready its small map is 48x48 and its large map
\* 96x96, each with width * height entries in [0, 1]; the map a restore
\* call uses has logoSize * logoSize entries for the selected placement, so
\* every index the loop visits lies inside the ROI buffer.
C16_AlphaMapsFitTheirPlacement ==
    /\ we.ready =>
          SquareMap(we.alphaMaps.small, 48) /\ SquareMap(we.alphaMaps.large, 96)
    /\ processor.isReady =>
          SquareMap(processor.alphaMap48, 48) /\ SquareMap(processor.alphaMap96, 96)
    /\ last.entered =>
          /\ last.alphaMap.width = LogoSize
          /\ last.alphaMap.data.length = LogoSize * LogoSize
          /\ last.hits \subseteq 0..(LogoSize * LogoSize - 1)
          /\ \A i \in last.hits :
                PixelUnder(i)[1] \in RoiX..(RoiX + LogoSize - 1)
                    /\ PixelUnder(i)[2] \in RoiY..(RoiY + LogoSize - 1)

\* a ready engine has restored with the large map and its last entry, or
\* a ready processor with the small map and its last entry
C16_Witness ==
    /\ last.entered
    /\ last.ready
    /\ \/ we.ready /\ LogoSize = 96 /\ 9215 \in last.hits
       \/ processor.isReady /\ LogoSize = 48 /\ 2303 \in last.hits

(***************************************************************************)
(* Properties: the App                                                     *)
(***************************************************************************)
\* nothing of the App is left to run: initialization has settled, no
\* processImage call waits for its image and no timer is pending
AppIdle ==
    /\ weInit # "pending"
    /\ tasks = <<>>
    /\ debounce.timers = {}

\* C17: every image added through handleFiles reaches processing = false:
\* once nothing is left to run, no image of the list has processing = true.
C17_EveryAddedImageStopsProcessing ==
    AppIdle => \A id \in DOMAIN images : ~images[id].processing

\* C18: once no processing call is in flight, every image has the sizeMode
\* and the intensity the user set last and a processedUrl made with them,
\* and an image that was removed is not in the list.
C18_LastSettingsWin ==
    /\ tasks = <<>> =>
          \A id \in DOMAIN images :
              /\ images[id].sizeMode = user.wanted[id].sizeMode
              /\ images[id].intensity = user.wanted[id].intensity
              /\ images[id].processedUrl # NullObject =>
                    images[id].processedUrl = user.wanted[id]
    /\ DOMAIN images \cap user.removed = {}

\* the run of the effect that comes with every change has the timers and
\* the passes in step: one timer, due Delay after the change, while it is
\* armed, and then one call of reprocessAllImages, which is a pass unless
\* the list is empty
OneTimerOnePass ==
    /\ Cardinality(debounce.timers) <= 1
    /\ clock.armed =>
          /\ clock.found /\ clock.passes = 0 /\ clock.empties = 0
          /\ \E t \in debounce.timers : t.left = Delay - clock.sinceTrigger
    /\ (clock.found /\ ~clock.armed) => clock.passes + clock.empties = 1
    /\ ~clock.found => clock.passes = 0
    /\ ~clock.armed => debounce.timers = {}
    /\ clock.passes > 0 => clock.size > 0

\* C19 as stated: a change of the logo settings cancels the timer that has
\* not fired; a burst of them starts one reprocess pass, 300 ms after the
\* last one; no pass starts while the image list is empty.
C19_OnePassAfterLastLogoChange ==
    /\ OneTimerOnePass
    /\ (clock.passes > 0 /\ clock.foundByLogo) => clock.afterLogo = Delay

\* C19, amended: the same of every run of the effect, which a change of
\* the logo settings and the engine becoming ready both cause.
C19_OnePassAfterLastChange ==
    /\ OneTimerOnePass
    /\ clock.passes > 0 => clock.afterTrigger = Delay

\* a second change of the logo settings came while the timer of the first
\* was pending, and one pass has started, 300 ms after the second
C19_Witness ==
    /\ logo = 2
    /\ clock.cancelled
    /\ clock.passes = 1
    /\ clock.afterLogo = Delay
    /\ clock.afterTrigger = Delay
    /\ clock.size > 0

=============================================================================
